---------------------------- MODULE Spec2Model ----------------------------
(***************************************************************************)
(* A model of NeuraOS's hybrid memory retrieval engine:                    *)
(*   neura/memory/graph.py       MemoryGraph (store, recall, delete, RRF,  *)
(*                               chunking) over SQLite + FTS5 + Qdrant     *)
(*   neura/memory/embeddings.py  EmbeddingEngine (embed, fallback, cache)  *)
(*                                                                         *)
(* Four specifications share the module's variables:                       *)
(*   Spec        the MemoryGraph: two tasks running store and delete calls *)
(*               on one event loop, yielding at every network await        *)
(*   SpecRecall  the MemoryGraph: a task running store and delete calls    *)
(*               and a task running recall calls                           *)
(*   SpecRRF     _reciprocal_rank_fusion applied to bounded ranked lists   *)
(*   SpecEmbed   the EmbeddingEngine: concurrent embed calls and the cache *)
(*                                                                         *)
(* Text is a sequence of characters, each character a one-letter string;   *)
(* NL is the newline character.                                            *)
(***************************************************************************)
EXTENDS Integers, Sequences, FiniteSets, TLC

NL == "NL"
SP == " "

(***************************************************************************)
(* Configuration.  chunk_size, chunk_overlap and cache_size are constructor *)
(* parameters (defaults 500, 50 and 1000), set here to small values so     *)
(* that chunking and eviction happen on short texts and few calls; rrf_k   *)
(* and the search limit have the code's values.  self.chunk_size and       *)
(* self.chunk_overlap are fields the constructor sets once: the engine of  *)
(* the store, recall, fusion and embedding specifications is built with    *)
(* the small defaults, the engines of SpecChunk with every pair of a       *)
(* chunk_size up to MaxChunkSize and a smaller chunk_overlap, those of     *)
(* SpecWindow with every pair, chunk_overlap >= chunk_size included.       *)
(***************************************************************************)
VARIABLES chunk_size, chunk_overlap

default_chunk_size == 3
default_chunk_overlap == 1
rrf_k == 60
fts_limit == 20
cache_size == 2

(***************************************************************************)
(* Bounds: memory ids handed out, the largest k of a recall, the largest   *)
(* magnitude of a bm25 rank, the length of a ranked list given to the      *)
(* fusion, and the embed calls that reach the cache lookup.                *)
(***************************************************************************)
MaxIds == 2
MaxK == 2
MaxRawRank == 2
MaxLen == 3
MaxCalls == 5

MaxBatch == 2

MaxChunkSize == 4

MaxContent == 6

(***************************************************************************)
(* Python string and list primitives.                                      *)
(***************************************************************************)
Min(a, b) == IF a <= b THEN a ELSE b

\* s[i:j] with 0-based, end-exclusive Python indices, 0 <= i.
Slice(s, i, j) == SubSeq(s, i + 1, Min(j, Len(s)))

\* s[-n:] : the last n characters; Python's s[-0:] is the whole string.
Tail_n(s, n) == IF n = 0 \/ n >= Len(s) THEN s ELSE SubSeq(s, Len(s) - n + 1, Len(s))

IsSpace(ch) == ch \in {SP, NL}

RECURSIVE LStrip(_)
LStrip(s) == IF s # <<>> /\ IsSpace(Head(s)) THEN LStrip(Tail(s)) ELSE s

RECURSIVE RStrip(_)
RStrip(s) ==
    IF s # <<>> /\ IsSpace(s[Len(s)]) THEN RStrip(SubSeq(s, 1, Len(s) - 1)) ELSE s

\* str.strip()
Strip(s) == RStrip(LStrip(s))

\* content.split("\n\n"): cut at each non-overlapping NL NL, scanning left to right.
RECURSIVE SplitParagraphs(_, _)
SplitParagraphs(s, cur) ==
    IF s = <<>> THEN <<cur>>
    ELSE IF Len(s) >= 2 /\ s[1] = NL /\ s[2] = NL
         THEN <<cur>> \o SplitParagraphs(SubSeq(s, 3, Len(s)), <<>>)
         ELSE SplitParagraphs(Tail(s), Append(cur, Head(s)))

\* hashlib.sha256(content.encode()).hexdigest(): a digest, taken collision-free.
Sha256(content) == <<"sha256", content>>

(***************************************************************************)
(* MemoryGraph._chunk_content                                              *)
(***************************************************************************)
\* The sliding window: while i < len(text): append text[i:i+size]; i += size - overlap
RECURSIVE SlidingWindow(_, _)
SlidingWindow(text, i) ==
    IF i < Len(text)
    THEN <<Slice(text, i, Min(i + chunk_size, Len(text)))>>
             \o SlidingWindow(text, i + (chunk_size - chunk_overlap))
    ELSE <<>>

\* The paragraph packing loop; returns the chunks before overlap is added.
RECURSIVE PackParagraphs(_, _, _)
PackParagraphs(paragraphs, current_chunk, chunks) ==
    IF paragraphs = <<>>
    THEN IF current_chunk # <<>> THEN Append(chunks, Strip(current_chunk)) ELSE chunks
    ELSE LET para == Head(paragraphs) IN
         IF Len(current_chunk) + Len(para) < chunk_size
         THEN PackParagraphs(Tail(paragraphs), current_chunk \o para \o <<NL, NL>>, chunks)
         ELSE PackParagraphs(Tail(paragraphs), para \o <<NL, NL>>,
                             IF current_chunk # <<>>
                             THEN Append(chunks, Strip(current_chunk)) ELSE chunks)

\* Each chunk after the first gets the previous (un-overlapped) chunk's tail + " ".
AddOverlap(chunks) ==
    IF Len(chunks) > 1
    THEN [i \in 1..Len(chunks) |->
            IF i > 1
            THEN LET prev == chunks[i - 1]
                     overlap == IF Len(prev) > chunk_overlap
                                THEN Tail_n(prev, chunk_overlap) ELSE prev
                 IN  overlap \o <<SP>> \o chunks[i]
            ELSE chunks[i]]
    ELSE chunks

_chunk_content(content) ==
    IF Len(content) <= chunk_size THEN <<content>>
    ELSE LET paragraphs == SplitParagraphs(content, <<>>) IN
         IF Len(paragraphs) = 1 /\ Len(paragraphs[1]) > chunk_size
         THEN SlidingWindow(paragraphs[1], 0)
         ELSE AddOverlap(PackParagraphs(paragraphs, <<>>, <<>>))

(***************************************************************************)
(* Exact scores: a score is a fraction <<numerator, denominator>>.         *)
(***************************************************************************)
Frac(n, d) == <<n, d>>

FracAdd(a, b) == <<a[1] * b[2] + b[1] * a[2], a[2] * b[2]>>

FracLeq(a, b) == a[1] * b[2] <= b[1] * a[2]

FracEq(a, b) == a[1] * b[2] = b[1] * a[2]

Abs(x) == IF x < 0 THEN -x ELSE x

(***************************************************************************)
(* The inputs of the MemoryGraph tasks.                                    *)
(***************************************************************************)
Procs == {"t1", "t2"}

\* A content longer than chunk_size, stored as the chunks "a a" and "a ", and a
\* short content, which is also the text of that second chunk.
ContentLong == <<"a", SP, "a", SP>>

ContentShort == <<"a", SP>>

Contents == {ContentShort, ContentLong}

\* A query that matches every stored text and one that matches none.
Queries == {<<"a">>, <<"b">>}

\* FTS5's bm25 rank is negative; the better a match, the more negative.
RawRanks == (0 - MaxRawRank)..(0 - 1)

\* Python's None where an id is expected, and where a row is expected.
None == <<>>

NoRow == [id |-> None, content |-> <<>>, content_hash |-> <<>>]

\* The set of orderings of a finite set.
RECURSIVE PermSeqs(_)
PermSeqs(S) ==
    IF S = {} THEN {<<>>}
    ELSE UNION {{<<x>> \o s : s \in PermSeqs(S \ {x})} : x \in S}

\* One ordering of a finite set.
RECURSIVE SomeSeq(_)
SomeSeq(S) ==
    IF S = {} THEN <<>> ELSE LET x == CHOOSE x \in S : TRUE IN <<x>> \o SomeSeq(S \ {x})

\* The words of a text: the maximal runs of non-space characters (FTS5 tokenizer).
RECURSIVE Tokens(_, _)
Tokens(text, cur) ==
    IF text = <<>> THEN (IF cur = <<>> THEN {} ELSE {cur})
    ELSE IF IsSpace(Head(text))
         THEN (IF cur = <<>> THEN {} ELSE {cur}) \cup Tokens(Tail(text), <<>>)
         ELSE Tokens(Tail(text), Append(cur, Head(text)))

VARIABLES initialized, qdrant_available, rows, fts, qdrant, next_id,
          pc, local, ret,
          ranked1, ranked2, fused, rrf_done,
          cache, cache_order, cache_hits, cache_misses, degraded_mode,
          epc, etext, eret, recency, eprimary, batch,
          chunk_input, chunk_output,
          win_pc, win_i, win_chunks

graph_vars == <<initialized, qdrant_available, rows, fts, qdrant, next_id,
                pc, local, ret>>

rrf_vars == <<ranked1, ranked2, fused, rrf_done>>

embed_vars == <<cache, cache_order, cache_hits, cache_misses, degraded_mode,
                epc, etext, eret, recency, eprimary, batch>>

window_vars == <<win_pc, win_i, win_chunks>>

chunk_vars == <<chunk_size, chunk_overlap, chunk_input, chunk_output, window_vars>>

vars == <<graph_vars, rrf_vars, embed_vars, chunk_vars>>

(***************************************************************************)
(* The engine's configuration after __init__ with the small defaults;      *)
(* chunk_input and chunk_output are the argument and the result of the     *)
(* last _chunk_content call made on its own (none yet); win_pc, win_i and  *)
(* win_chunks are the position of a _chunk_content call followed step by   *)
(* step through its sliding-window loop, and that loop's locals i and      *)
(* chunks (no such call yet).                                              *)
(***************************************************************************)
WindowIdle ==
    /\ win_pc = "none"
    /\ win_i = 0
    /\ win_chunks = <<>>

ConfigInit ==
    /\ chunk_size = default_chunk_size
    /\ chunk_overlap = default_chunk_overlap
    /\ chunk_input = <<>>
    /\ chunk_output = <<>>
    /\ WindowIdle

(***************************************************************************)
(* MemoryGraph state after __init__.                                       *)
(*   rows    the memories table as the one shared connection sees it       *)
(*   fts     the memories_fts index, maintained by the three triggers      *)
(*   qdrant  the points of the "memories" collection                       *)
(*   pc, local   each task's position and locals                           *)
(*   ret     what the step just taken returned to its caller (NoResult     *)
(*           when the step returned nothing)                               *)
(***************************************************************************)
IdleLocal ==
    [op |-> "none", content |-> <<>>, memory_id |-> 0, chunks |-> <<>>, i |-> 0,
     arg |-> <<>>, after_store |-> FALSE, fts_ok |-> TRUE, matching |-> {},
     vec_work |-> FALSE, vec_failed |-> FALSE,
     intact |-> TRUE, prev |-> <<>>, peers |-> {}]

NoResult == [op |-> "none", kind |-> "none"]

GraphInit ==
    /\ initialized = FALSE
    /\ qdrant_available = FALSE
    /\ rows = {}
    /\ fts = {}
    /\ qdrant = {}
    /\ next_id = 1
    /\ pc = [p \in Procs |-> "idle"]
    /\ local = [p \in Procs |-> IdleLocal]
    /\ ret = NoResult


\* initialize(): _init_sqlite, then _init_qdrant, which either succeeds or
\* degrades to FTS only.
Initialize(qdrant_ok) ==
    /\ ~initialized
    /\ UNCHANGED <<rrf_vars, embed_vars, chunk_vars>>
    /\ initialized' = TRUE
    /\ qdrant_available' = qdrant_ok
    /\ ret' = NoResult
    /\ UNCHANGED <<rows, fts, qdrant, next_id, pc, local>>

\* A request handler run by task p finds _initialized false and awaits
\* initialize(), which finds it false too: _init_sqlite opens the connection and
\* _init_qdrant creates the client, which raises (caught: FTS only, and initialize
\* returns) or goes on to the await of get_collections.
InitBegin(p, client_ok) ==
    /\ pc[p] = "idle"
    /\ ~initialized
    /\ UNCHANGED <<rrf_vars, embed_vars, chunk_vars>>
    /\ IF client_ok
       THEN /\ pc' = [pc EXCEPT ![p] = "init_qdrant"]
            /\ ret' = [op |-> "initialize", kind |-> "await", task |-> p]
            /\ UNCHANGED <<initialized, qdrant_available>>
       ELSE /\ qdrant_available' = FALSE
            /\ initialized' = TRUE
            /\ ret' = [op |-> "initialize", kind |-> "raised", task |-> p]
            /\ UNCHANGED pc
    /\ UNCHANGED <<rows, fts, qdrant, next_id, local>>

\* get_collections / create_collection return or raise in task p's initialize(),
\* which then sets _initialized and returns.
InitQdrant(p, ok) ==
    /\ pc[p] = "init_qdrant"
    /\ UNCHANGED <<rrf_vars, embed_vars, chunk_vars>>
    /\ qdrant_available' = ok
    /\ initialized' = TRUE
    /\ pc' = [pc EXCEPT ![p] = "idle"]
    /\ ret' = [op |-> "initialize", kind |-> "done", task |-> p]
    /\ UNCHANGED <<rows, fts, qdrant, next_id, local>>

(***************************************************************************)
(* SQLite: the memories table (id PRIMARY KEY, content_hash UNIQUE) and    *)
(* the triggers memories_ai / memories_au / memories_ad on memories_fts.   *)
(***************************************************************************)
\* INSERT INTO memories: raises sqlite3.IntegrityError on a duplicate id or hash.
InsertViolates(rs, id, hash) == \E r \in rs : r.id = id \/ r.content_hash = hash

\* A row's id, content and content_hash are modelled; no operation of the engine
\* reads metadata, type, embedding_model or timestamp to decide anything.
NewRow(id, content, hash) ==
    [id |-> id, content |-> content, content_hash |-> hash]

\* Trigger memories_ai.
FtsAfterInsert(fs, id, content) == fs \cup {[id |-> id, content |-> content]}

\* UPDATE memories SET timestamp = CURRENT_TIMESTAMP WHERE content_hash = ?
\* It writes the timestamp column only, which is not among the modelled columns.
UpdateTimestamp(rs, hash) == rs

\* Trigger memories_au: rewrites the indexed content of every updated row.
FtsAfterUpdate(fs, rs, hash) ==
    {IF \E r \in rs : r.content_hash = hash /\ r.id = f.id
     THEN [f EXCEPT !.content = (CHOOSE r \in rs : r.id = f.id).content]
     ELSE f : f \in fs}

\* DELETE FROM memories WHERE id = ?
DeleteRow(rs, id) == {r \in rs : r.id # id}

\* Trigger memories_ad.
FtsAfterDelete(fs, id) == {f \in fs : f.id # id}

\* get_by_hash: the row with this content_hash, or None.
get_by_hash(rs, hash) ==
    IF \E r \in rs : r.content_hash = hash
    THEN CHOOSE r \in rs : r.content_hash = hash
    ELSE NoRow

\* get_by_id: the row with this id, or None.
get_by_id(rs, id) ==
    IF \E r \in rs : r.id = id THEN CHOOSE r \in rs : r.id = id ELSE NoRow

\* chunk_id = f"{memory_id}_chunk{i}" if len(chunks) > 1 else memory_id  (i from 0)
ChunkId(memory_id, n_chunks, i) ==
    IF n_chunks > 1 THEN <<memory_id, i>> ELSE <<memory_id>>

\* The memory id a row, index entry or point was written under.
ParentOf(id) == id[1]

(***************************************************************************)
(* MemoryGraph.store                                                       *)
(***************************************************************************)
\* The loop "for i, chunk in enumerate(chunks)" of store, run from chunk i (from 1
\* here) up to its next await: each chunk is INSERTed (content_hash of the whole
\* content for the first chunk, of the chunk text for the others); with Qdrant
\* available the loop then awaits embed(chunk), otherwise it goes on to the next
\* chunk.  status: "embed" (awaiting at chunk i), "integrity" (the INSERT of chunk i
\* raised) or "finished" (the loop is over).
RECURSIVE StoreLoop(_, _, _, _, _, _, _)
StoreLoop(rs, fs, memory_id, content, chunks, i, avail) ==
    IF i > Len(chunks)
    THEN [status |-> "finished", rows |-> rs, fts |-> fs, i |-> i]
    ELSE LET chunk == chunks[i]
             chunk_id == ChunkId(memory_id, Len(chunks), i - 1)
             hash == IF i = 1 THEN Sha256(content) ELSE Sha256(chunk)
         IN  IF InsertViolates(rs, chunk_id, hash)
             THEN [status |-> "integrity", rows |-> rs, fts |-> fs, i |-> i]
             ELSE LET rs2 == rs \cup {NewRow(chunk_id, chunk, hash)}
                      fs2 == FtsAfterInsert(fs, chunk_id, chunk)
                  IN  IF avail
                      THEN [status |-> "embed", rows |-> rs2, fts |-> fs2, i |-> i]
                      ELSE StoreLoop(rs2, fs2, memory_id, content, chunks, i + 1, avail)

\* Whether every chunk of a store call is in the table and in the FTS index.
AllChunksPersisted(rs, fs, l) ==
    \A j \in 1..Len(l.chunks) :
        LET id == ChunkId(l.memory_id, Len(l.chunks), j - 1) IN
        /\ \E r \in rs : r.id = id /\ r.content = l.chunks[j]
        /\ \E f \in fs : f.id = id /\ f.content = l.chunks[j]

\* What store returns, with the call's history: the memory id it generated (0 if
\* it generated none), whether it called embed or
\* upsert, whether an embedding or an upsert failed, the INSERTs it did, whether a
\* DELETE removed one of its rows meanwhile, the id returned by the successful
\* store of the same content that this call directly followed (None if it followed
\* none), and the ids returned by the successful store calls of the same content
\* that returned while this call was running (no DELETE having removed a row of
\* theirs).
StoreResult(kind, id, dedup, db_error, l, rs, fs) ==
    [op |-> "store", kind |-> kind, id |-> id, content |-> l.content,
     memory_id |-> l.memory_id,
     chunks |-> l.chunks, dedup |-> dedup, db_error |-> db_error,
     vec_work |-> l.vec_work, vec_failed |-> l.vec_failed,
     inserted |-> l.i, intact |-> l.intact, prev |-> l.prev, peers |-> l.peers,
     persisted |-> AllChunksPersisted(rs, fs, l)]

\* The tasks running store(content) right now.
StoringNow(content) ==
    {q \in Procs : pc[q] # "idle" /\ local[q].op = "store" /\ local[q].content = content}

\* store returns r from task p; the store calls of the same content that are
\* running record the id it returned (when it succeeded with its rows in place).
StoreReturns(p, r) ==
    /\ pc' = [pc EXCEPT ![p] = "idle"]
    /\ local' = [q \in Procs |->
                   IF q = p THEN IdleLocal
                   ELSE IF q \in StoringNow(r.content) /\ r.kind = "success" /\ r.intact
                        THEN [local[q] EXCEPT !.peers = @ \cup {r.id}]
                        ELSE local[q]]
    /\ ret' = r

\* store, from the INSERT of chunk i to the next await or to the return:
\* commit and Result.success(entry) with entry.id = memory_id when the loop is
\* over, Result.failure when an INSERT raised IntegrityError.
StoreFrom(p, l, i) ==
    LET o == StoreLoop(rows, fts, l.memory_id, l.content, l.chunks, i, qdrant_available)
        l2 == [l EXCEPT !.i = IF o.status = "integrity" THEN o.i - 1
                                ELSE Min(o.i, Len(l.chunks))]
    IN  /\ rows' = o.rows
        /\ fts' = o.fts
        /\ IF o.status = "embed"
           THEN /\ pc' = [pc EXCEPT ![p] = "store_embed"]
                /\ local' = [local EXCEPT ![p] = l2]
                /\ ret' = NoResult
           ELSE StoreReturns(p, IF o.status = "finished"
                                THEN StoreResult("success", <<l.memory_id>>, FALSE,
                                                 FALSE, l2, o.rows, o.fts)
                                ELSE StoreResult("failure", None, FALSE,
                                                 TRUE, l2, o.rows, o.fts))

\* store(content) up to its first await.
StoreBegin(p, content) ==
    /\ pc[p] = "idle"
    /\ UNCHANGED <<rrf_vars, embed_vars, chunk_vars>>
    /\ LET hash == Sha256(content)
           existing == get_by_hash(rows, hash)
           l == [IdleLocal EXCEPT
                   !.op = "store", !.content = content,
                   \* history: the call directly follows a successful store of content
                   !.prev = IF /\ ret.op = "store" /\ ret.kind = "success"
                               /\ ret.content = content /\ ret.intact
                            THEN ret.id ELSE None]
       IN  IF ~initialized
           THEN /\ StoreReturns(p, StoreResult("failure", None, FALSE, FALSE, l, rows, fts))
                /\ UNCHANGED <<rows, fts, next_id>>
           ELSE IF existing # NoRow
           THEN \* already stored: refresh the timestamp, commit, return the row
                /\ rows' = UpdateTimestamp(rows, hash)
                /\ fts' = FtsAfterUpdate(fts, rows, hash)
                /\ StoreReturns(p, StoreResult("success", existing.id, TRUE, FALSE,
                                               l, rows, fts))
                /\ UNCHANGED next_id
           ELSE /\ next_id <= MaxIds
                /\ next_id' = next_id + 1
                /\ StoreFrom(p, [l EXCEPT !.memory_id = next_id,
                                          !.chunks = IF Len(content) > chunk_size
                                                     THEN _chunk_content(content)
                                                     ELSE <<content>>], 1)
    /\ UNCHANGED <<initialized, qdrant_available, qdrant>>

\* StoreEmbed with a failed embedding ending the call in Result.failure.
StoreEmbed_Fatal(p, ok) ==
    /\ pc[p] = "store_embed"
    /\ UNCHANGED <<rrf_vars, embed_vars, chunk_vars>>
    /\ IF ok
       THEN /\ pc' = [pc EXCEPT ![p] = "store_upsert"]
            /\ local' = [local EXCEPT ![p].vec_work = TRUE]
            /\ ret' = NoResult
       ELSE StoreReturns(p, StoreResult("failure", None, FALSE, FALSE,
                                       [local[p] EXCEPT !.vec_work = TRUE,
                                                        !.vec_failed = TRUE],
                                       rows, fts))
    /\ UNCHANGED <<initialized, qdrant_available, rows, fts, qdrant, next_id>>

\* embedding_result = await self._embedding_engine.embed(chunk) returns.
StoreEmbed(p, ok) ==
    /\ pc[p] = "store_embed"
    /\ UNCHANGED <<rrf_vars, embed_vars, chunk_vars>>
    /\ IF ok
       THEN /\ pc' = [pc EXCEPT ![p] = "store_upsert"]
            /\ local' = [local EXCEPT ![p].vec_work = TRUE]
            /\ ret' = NoResult
            /\ UNCHANGED <<rows, fts>>
       ELSE \* logged; on to the next chunk
            StoreFrom(p, [local[p] EXCEPT !.vec_work = TRUE, !.vec_failed = TRUE],
                      local[p].i + 1)
    /\ UNCHANGED <<initialized, qdrant_available, qdrant, next_id>>

\* await self._qdrant.upsert(...) returns or raises (caught and logged).
StoreUpsert(p, ok) ==
    /\ pc[p] = "store_upsert"
    /\ UNCHANGED <<rrf_vars, embed_vars, chunk_vars>>
    /\ LET l == local[p]
           chunk_id == ChunkId(l.memory_id, Len(l.chunks), l.i - 1)
           point == [id |-> chunk_id, memory_id |-> l.memory_id, content |-> l.chunks[l.i]]
       IN  /\ qdrant' = IF ok THEN {q \in qdrant : q.id # chunk_id} \cup {point}
                        ELSE qdrant
           /\ StoreFrom(p, [l EXCEPT !.vec_work = TRUE,
                                     !.vec_failed = IF ok THEN @ ELSE TRUE],
                        l.i + 1)
    /\ UNCHANGED <<initialized, qdrant_available, next_id>>

(***************************************************************************)
(* MemoryGraph.delete                                                      *)
(***************************************************************************)
\* DELETE FROM memories WHERE id = ?, commit, Result.success(True).
DeleteSql(p, l) ==
    /\ rows' = DeleteRow(rows, l.arg)
    /\ fts' = FtsAfterDelete(fts, l.arg)
    /\ pc' = [pc EXCEPT ![p] = "idle"]
    /\ local' = [q \in Procs |->
                   IF q = p THEN IdleLocal
                   ELSE IF /\ local[q].op = "store"
                           /\ local[q].memory_id = ParentOf(l.arg)
                           /\ \E r \in rows : r.id = l.arg
                        THEN [local[q] EXCEPT !.intact = FALSE]
                        ELSE local[q]]
    /\ ret' = [op |-> "delete", kind |-> "success", arg |-> l.arg,
               after_store |-> l.after_store]

\* The ids a caller passes to delete: the memory ids store hands out and the ids
\* of the rows (which store returns for content already stored, and recall and
\* get_by_id for any row).
DeleteArgs == {<<m>> : m \in 1..(next_id - 1)} \cup {r.id : r \in rows}

\* delete(memory_id) calling the vector index whatever the availability flag.
DeleteBegin_AlwaysQdrant(p, memory_id) ==
    /\ pc[p] = "idle"
    /\ UNCHANGED <<rrf_vars, embed_vars, chunk_vars>>
    /\ memory_id \in DeleteArgs
    /\ pc' = [pc EXCEPT ![p] = "delete_qdrant"]
    /\ local' = [local EXCEPT ![p] = [IdleLocal EXCEPT !.op = "delete",
                                                        !.arg = memory_id]]
    /\ ret' = NoResult
    /\ UNCHANGED <<rows, fts>>
    /\ UNCHANGED <<initialized, qdrant_available, qdrant, next_id>>

\* delete(memory_id) up to its first await.
DeleteBegin(p, memory_id) ==
    /\ pc[p] = "idle"
    /\ UNCHANGED <<rrf_vars, embed_vars, chunk_vars>>
    /\ memory_id \in DeleteArgs
    /\ LET l == [IdleLocal EXCEPT
                   !.op = "delete", !.arg = memory_id,
                   \* history: the call directly follows the store that returned this id
                   !.after_store = (ret.op = "store" /\ ret.kind = "success"
                                                    /\ ret.id = memory_id)]
       IN  IF qdrant_available
           THEN /\ pc' = [pc EXCEPT ![p] = "delete_qdrant"]
                /\ local' = [local EXCEPT ![p] = l]
                /\ ret' = NoResult
                /\ UNCHANGED <<rows, fts>>
           ELSE DeleteSql(p, l)
    /\ UNCHANGED <<initialized, qdrant_available, qdrant, next_id>>

\* await self._qdrant.delete(...) returns or raises (caught and logged).
DeleteQdrant(p, ok) ==
    /\ pc[p] = "delete_qdrant"
    /\ UNCHANGED <<rrf_vars, embed_vars, chunk_vars>>
    /\ qdrant' = IF ok THEN {q \in qdrant : q.id # local[p].arg} ELSE qdrant
    /\ DeleteSql(p, local[p])
    /\ UNCHANGED <<initialized, qdrant_available, next_id>>

(***************************************************************************)
(* MemoryGraph._reciprocal_rank_fusion                                     *)
(* A ranked list is a sequence of [entry, score]; an entry is a row.       *)
(***************************************************************************)
EmptyDict == [keys |-> <<>>, scores |-> <<>>, entries |-> <<>>]

\* scores.get(id, 0.0), the dict being a sequence of keys in insertion order with
\* the values at the same positions.
DictIndex(d, id) ==
    IF \E i \in DOMAIN d.keys : d.keys[i] = id
    THEN CHOOSE i \in DOMAIN d.keys : d.keys[i] = id
    ELSE 0

\* RrfAccumulate with the ranks counted from 1: 1.0 / (rank + 1 + self.rrf_k).
RECURSIVE RrfAccumulate_OneBased(_, _, _)
RrfAccumulate_OneBased(results, rank, d) ==
    IF rank >= Len(results) THEN d
    ELSE LET entry == results[rank + 1].entry
             rrf_score == Frac(1, rank + 1 + rrf_k)
             at == DictIndex(d, entry.id)
             d2 == IF at = 0
                   THEN [keys |-> Append(d.keys, entry.id),
                         scores |-> Append(d.scores, FracAdd(Frac(0, 1), rrf_score)),
                         entries |-> Append(d.entries, entry)]
                   ELSE [keys |-> d.keys,
                         scores |-> [d.scores EXCEPT ![at] = FracAdd(@, rrf_score)],
                         entries |-> [d.entries EXCEPT ![at] = entry]]
         IN  RrfAccumulate_OneBased(results, rank + 1, d2)

\* for rank, (entry, _) in enumerate(results):
\*     scores[entry.id] = scores.get(entry.id, 0.0) + 1.0 / (rank + self.rrf_k)
\*     entries[entry.id] = entry
RECURSIVE RrfAccumulate(_, _, _)
RrfAccumulate(results, rank, d) ==
    IF rank >= Len(results) THEN d
    ELSE LET entry == results[rank + 1].entry
             rrf_score == Frac(1, rank + rrf_k)
             at == DictIndex(d, entry.id)
             d2 == IF at = 0
                   THEN [keys |-> Append(d.keys, entry.id),
                         scores |-> Append(d.scores, FracAdd(Frac(0, 1), rrf_score)),
                         entries |-> Append(d.entries, entry)]
                   ELSE [keys |-> d.keys,
                         scores |-> [d.scores EXCEPT ![at] = FracAdd(@, rrf_score)],
                         entries |-> [d.entries EXCEPT ![at] = entry]]
         IN  RrfAccumulate(results, rank + 1, d2)

\* sorted(scores.keys(), key=lambda x: scores[x], reverse=True): a stable sort, so
\* keys of equal score stay in the dict's insertion order.  Positions are sorted.
RECURSIVE SortedDesc(_, _, _)
SortedDesc(scores, todo, out) ==
    IF todo = <<>> THEN out
    ELSE LET x == Head(todo)
             \* x goes before the first position of strictly smaller score
             smaller == {i \in DOMAIN out : ~FracLeq(scores[x], scores[out[i]])}
             at == IF smaller = {} THEN Len(out) + 1
                   ELSE CHOOSE i \in smaller : \A j \in smaller : i <= j
         IN  SortedDesc(scores, Tail(todo),
                        SubSeq(out, 1, at - 1) \o <<x>> \o SubSeq(out, at, Len(out)))

IdsOf(results) == {results[i].entry.id : i \in DOMAIN results}

_reciprocal_rank_fusion(results1, results2) ==
    LET d == RrfAccumulate(results2, 0, RrfAccumulate(results1, 0, EmptyDict))
        sorted_ids == SortedDesc(d.scores, [i \in DOMAIN d.keys |-> i], <<>>)
    IN  [n \in DOMAIN sorted_ids |->
            LET at == sorted_ids[n]
                entry_id == d.keys[at]
            IN  [entry |-> d.entries[at], score |-> d.scores[at],
                 source |-> IF entry_id \in IdsOf(results1) /\ entry_id \in IdsOf(results2)
                            THEN "hybrid"
                            ELSE IF entry_id \in IdsOf(results1) THEN "fts"
                            ELSE "semantic"]]

(***************************************************************************)
(* MemoryGraph.recall                                                      *)
(***************************************************************************)
\* The rows the FTS query matches: memories_fts JOIN memories ON rowid, the query
\* being one of the words of the indexed text.
FtsMatches(rs, fs, query) ==
    {r \in rs : \E f \in fs : f.id = r.id /\ query \in Tokens(f.content, <<>>)}

\* ORDER BY rank LIMIT ?: the matching rows, each with its (negative) bm25 rank,
\* in ascending order of rank.  The rank values depend on the whole corpus; every
\* assignment of ranks and every order among equal ranks is taken.
FtsRankings(matches) ==
    UNION {{[i \in DOMAIN o |-> [row |-> o[i], rank |-> rk[o[i]]]] :
               o \in {o \in PermSeqs(matches) :
                        \A i, j \in DOMAIN o : i < j => rk[o[i]] <= rk[o[j]]}}
           : rk \in [matches -> RawRanks]}

\* _fts_search, given the cursor's rows: score = 1.0 / (1.0 + abs(row["rank"])).
_fts_search(ranking, limit) ==
    [i \in 1..Min(limit, Len(ranking)) |->
        [entry |-> ranking[i].row, score |-> Frac(1, 1 + Abs(ranking[i].rank))]]

\* _semantic_search after the Qdrant search returned hits (point ids, best first):
\* each hit's row is fetched by id; hits without a row are dropped.  hit.score is
\* kept as the list's score and is not read by the fusion.
SemanticResults(rs, hits) ==
    LET kept == SelectSeq(hits, LAMBDA id : get_by_id(rs, id) # NoRow)
    IN  [i \in DOMAIN kept |-> [entry |-> get_by_id(rs, kept[i]), score |-> Frac(1, 1)]]

\* Combine fusing in every case, an empty semantic list included.
Combine_AlwaysFuse(fts_results, semantic_results) ==
    _reciprocal_rank_fusion(fts_results, semantic_results)

\* Steps 3 and 4 of recall: fuse when there are semantic results, else pass the
\* FTS results on tagged "fts"; return the top k.
Combine(fts_results, semantic_results) ==
    IF semantic_results # <<>>
    THEN _reciprocal_rank_fusion(fts_results, semantic_results)
    ELSE [i \in DOMAIN fts_results |->
             [entry |-> fts_results[i].entry, score |-> fts_results[i].score,
              source |-> "fts"]]

TopK(combined, k) == SubSeq(combined, 1, Min(k, Len(combined)))

\* recall returns to task p, with the call's history: the lists the two lookups
\* gave, which lookups failed, and the rows that matched when the FTS query ran.
\* The FTS rows were fetched before the first await; their bm25 ranks, which
\* nothing reads before the fusion, and the caller's k, which nothing reads before
\* the truncation, are drawn here.
RecallReturns(p, l, k, ranking, semantic_results, sem_tried, sem_ok) ==
    LET fts_results == IF l.fts_ok THEN _fts_search(ranking, fts_limit) ELSE <<>>
    IN  /\ pc' = [pc EXCEPT ![p] = "idle"]
        /\ local' = [local EXCEPT ![p] = IdleLocal]
        /\ ret' = [op |-> "recall", kind |-> "list",
                   list |-> TopK(Combine(fts_results, semantic_results), k),
                   k |-> k, fts_results |-> fts_results, fts_ok |-> l.fts_ok,
                   matching |-> l.matching, semantic_results |-> semantic_results,
                   sem_tried |-> sem_tried, sem_ok |-> sem_ok,
                   was_initialized |-> TRUE]

\* recall(query, k) up to its first await: the FTS search runs (or raises inside
\* _fts_search, which then returns []); with Qdrant available the query is embedded.
RecallBegin(p, query, fts_ok) ==
    /\ pc[p] = "idle"
    /\ UNCHANGED <<rrf_vars, embed_vars, chunk_vars>>
    /\ IF ~initialized
       THEN /\ \E k \in 1..MaxK :
                 ret' = [op |-> "recall", kind |-> "list", list |-> <<>>, k |-> k,
                         fts_results |-> <<>>, fts_ok |-> FALSE, matching |-> {},
                         semantic_results |-> <<>>, sem_tried |-> FALSE,
                         sem_ok |-> FALSE, was_initialized |-> FALSE]
            /\ UNCHANGED <<pc, local>>
       ELSE LET l == [IdleLocal EXCEPT
                        !.op = "recall", !.fts_ok = fts_ok,
                        !.matching = IF fts_ok THEN FtsMatches(rows, fts, query) ELSE {}]
            IN  IF qdrant_available
                THEN /\ pc' = [pc EXCEPT ![p] = "recall_embed"]
                     /\ local' = [local EXCEPT ![p] = l]
                     /\ ret' = NoResult
                ELSE \E k \in 1..MaxK, ranking \in FtsRankings(l.matching) :
                        RecallReturns(p, l, k, ranking, <<>>, FALSE, FALSE)
    /\ UNCHANGED <<initialized, qdrant_available, rows, fts, qdrant, next_id>>

\* RecallEmbed with a failed query embedding ending the call with [].
RecallEmbed_Fatal(p, ok) ==
    /\ pc[p] = "recall_embed"
    /\ UNCHANGED <<rrf_vars, embed_vars, chunk_vars>>
    /\ IF ok
       THEN /\ pc' = [pc EXCEPT ![p] = "recall_search"]
            /\ ret' = NoResult
            /\ UNCHANGED local
       ELSE \E k \in 1..MaxK, ranking \in FtsRankings(local[p].matching) :
               /\ pc' = [pc EXCEPT ![p] = "idle"]
               /\ local' = [local EXCEPT ![p] = IdleLocal]
               /\ ret' = [op |-> "recall", kind |-> "list", list |-> <<>>, k |-> k,
                          fts_results |-> IF local[p].fts_ok
                                          THEN _fts_search(ranking, fts_limit) ELSE <<>>,
                          fts_ok |-> local[p].fts_ok, matching |-> local[p].matching,
                          semantic_results |-> <<>>, sem_tried |-> TRUE,
                          sem_ok |-> FALSE, was_initialized |-> TRUE]
    /\ UNCHANGED <<initialized, qdrant_available, rows, fts, qdrant, next_id>>

\* embedding_result = await self._embedding_engine.embed(query) returns.
RecallEmbed(p, ok) ==
    /\ pc[p] = "recall_embed"
    /\ UNCHANGED <<rrf_vars, embed_vars, chunk_vars>>
    /\ IF ok
       THEN /\ pc' = [pc EXCEPT ![p] = "recall_search"]
            /\ ret' = NoResult
            /\ UNCHANGED local
       ELSE \E k \in 1..MaxK, ranking \in FtsRankings(local[p].matching) :
               RecallReturns(p, local[p], k, ranking, <<>>, TRUE, FALSE)
    /\ UNCHANGED <<initialized, qdrant_available, rows, fts, qdrant, next_id>>

\* What a Qdrant search may return: the points in any order (fewer than the limit
\* of 20 exist, so all are returned; the vectors decide the order), or nothing
\* when it raises.  A hit without a row is dropped by _semantic_search wherever it
\* stands, so the points without a row are put first, in one order, and the others
\* take every order.
SearchHits(points, rs, ok) ==
    LET live == {q.id : q \in {q \in points : \E r \in rs : r.id = q.id}}
        orphans == {q.id : q \in points} \ live
    IN  IF ok THEN {SomeSeq(orphans) \o o : o \in PermSeqs(live)} ELSE {<<>>}

\* await self._qdrant.search(...) returns the hits, best first, or raises.
RecallSearch(p, ok, hits) ==
    /\ pc[p] = "recall_search"
    /\ UNCHANGED <<rrf_vars, embed_vars, chunk_vars>>
    /\ hits \in SearchHits(qdrant, rows, ok)
    /\ \E k \in 1..MaxK, ranking \in FtsRankings(local[p].matching) :
          IF ok
          THEN RecallReturns(p, local[p], k, ranking, SemanticResults(rows, hits),
                             TRUE, TRUE)
          ELSE RecallReturns(p, local[p], k, ranking, <<>>, TRUE, FALSE)
    /\ UNCHANGED <<initialized, qdrant_available, rows, fts, qdrant, next_id>>

(***************************************************************************)
(* The fusion on its own: _reciprocal_rank_fusion applied to two ranked    *)
(* lists of entries A, B, C, each list without repetition and of bounded   *)
(* length (a search returns a row or a point once).                        *)
(***************************************************************************)
EntryIds == {"A", "B", "C"}

\* The sequences without repetition over S, of length at most n.
RECURSIVE DistinctSeqs(_, _)
DistinctSeqs(S, n) ==
    IF n = 0 \/ S = {} THEN {<<>>}
    ELSE {<<>>} \cup UNION {{<<x>> \o t : t \in DistinctSeqs(S \ {x}, n - 1)} : x \in S}

\* MemoryEntry.timestamp of the entries: A is the oldest, C the most recent.
Timestamp(id) == CASE id = "A" -> 1 [] id = "B" -> 2 [] id = "C" -> 3

RankedLists ==
    {[i \in DOMAIN ids |-> [entry |-> [id |-> ids[i], timestamp |-> Timestamp(ids[i])],
                            score |-> Frac(1, 1)]] :
        ids \in DistinctSeqs(EntryIds, MaxLen)}

RrfInit ==
    /\ ranked1 \in RankedLists
    /\ ranked2 \in RankedLists
    /\ fused = <<>>
    /\ rrf_done = FALSE

RrfIdle ==
    /\ ranked1 = <<>>
    /\ ranked2 = <<>>
    /\ fused = <<>>
    /\ rrf_done = FALSE

Fuse ==
    /\ ~rrf_done
    /\ UNCHANGED <<graph_vars, embed_vars, chunk_vars>>
    /\ fused' = _reciprocal_rank_fusion(ranked1, ranked2)
    /\ rrf_done' = TRUE
    /\ UNCHANGED <<ranked1, ranked2>>

(***************************************************************************)
(* EmbeddingEngine (embeddings.py): embed, _fallback_embed, _add_to_cache. *)
(*   cache, cache_order   _cache (key -> vector) and _cache_order          *)
(*   cache_hits, cache_misses, degraded_mode   the engine's counters, flag *)
(*   epc, etext   each task's position in embed and its text               *)
(*   eret     what the step just taken returned (NoEmbedResult if nothing) *)
(*   recency  history: the cached keys, least recently used first, where   *)
(*            an insertion and a cache hit both count as a use             *)
(*   eprimary history: what the primary POST gave the task now awaiting    *)
(*            the fallback POST                                            *)
(*   batch    each task's batch_embed call: its texts and its results      *)
(***************************************************************************)
EProcs == {"e1", "e2"}

Texts == {<<>>, <<SP>>, <<"x">>, <<"y">>, <<"z">>}

PrimaryModel == "mxbai-embed-large"

FallbackModel == "mistral"

\* The vector a model returns for a text.
Vector(model, text) == <<model, text>>

\* cache_key = f"{self.model}:{text}"
CacheKey(text) == <<PrimaryModel, text>>

NoEmbedResult == [kind |-> "none"]

\* A task that is in no batch_embed call.
NoBatch == [active |-> FALSE, texts |-> <<>>, out |-> <<>>, items |-> <<>>]

EmbedInit ==
    /\ cache = <<>>
    /\ cache_order = <<>>
    /\ cache_hits = 0
    /\ cache_misses = 0
    /\ degraded_mode = FALSE
    /\ epc = [p \in EProcs |-> "idle"]
    /\ etext = [p \in EProcs |-> <<>>]
    /\ eret = NoEmbedResult
    /\ recency = <<>>
    /\ eprimary = [p \in EProcs |-> "none"]
    /\ batch = [p \in EProcs |-> NoBatch]

\* The sequence without the key (list.remove of a key the list holds once).
Without(seq, key) == SelectSeq(seq, LAMBDA x : x # key)

\* The function without the key (del dict[key]).
Drop(f, key) == [x \in DOMAIN f \ {key} |-> f[x]]

\* _add_to_cache without the removal of a key already cached from _cache_order.
_add_to_cache_NoRemove(c, order, key, embedding) ==
    LET c2 == [x \in DOMAIN c \cup {key} |-> IF x = key THEN embedding ELSE c[x]]
        order2 == Append(order, key)
    IN  IF Cardinality(DOMAIN c2) > cache_size
        THEN [cache |-> Drop(c2, Head(order2)), order |-> Tail(order2),
              evicted |-> Head(order2)]
        ELSE [cache |-> c2, order |-> order2, evicted |-> None]

\* _add_to_cache evicting the second-oldest key of _cache_order.
_add_to_cache_EvictSecond(c, order, key, embedding) ==
    LET order1 == IF key \in DOMAIN c THEN Without(order, key) ELSE order
        c2 == [x \in DOMAIN c \cup {key} |-> IF x = key THEN embedding ELSE c[x]]
        order2 == Append(order1, key)
    IN  IF Cardinality(DOMAIN c2) > cache_size
        THEN [cache |-> Drop(c2, order2[2]), order |-> Without(order2, order2[2]),
              evicted |-> order2[2]]
        ELSE [cache |-> c2, order |-> order2, evicted |-> None]

\* _add_to_cache evicting only above cache_size + 1 entries.
_add_to_cache_OffByOne(c, order, key, embedding) ==
    LET order1 == IF key \in DOMAIN c THEN Without(order, key) ELSE order
        c2 == [x \in DOMAIN c \cup {key} |-> IF x = key THEN embedding ELSE c[x]]
        order2 == Append(order1, key)
    IN  IF Cardinality(DOMAIN c2) > cache_size + 1
        THEN [cache |-> Drop(c2, Head(order2)), order |-> Tail(order2),
              evicted |-> Head(order2)]
        ELSE [cache |-> c2, order |-> order2, evicted |-> None]

\* _add_to_cache(key, embedding): the new _cache and _cache_order, and the key
\* evicted (None if none).
_add_to_cache(c, order, key, embedding) ==
    LET order1 == IF key \in DOMAIN c THEN Without(order, key) ELSE order
        c2 == [x \in DOMAIN c \cup {key} |-> IF x = key THEN embedding ELSE c[x]]
        order2 == Append(order1, key)
    IN  IF Cardinality(DOMAIN c2) > cache_size
        THEN [cache |-> Drop(c2, Head(order2)), order |-> Tail(order2),
              evicted |-> Head(order2)]
        ELSE [cache |-> c2, order |-> order2, evicted |-> None]

\* What embed returns, with the history of the call: whether it was a cache hit,
\* the key _add_to_cache evicted, the least recently used key at the insertion,
\* what the primary and the fallback POST gave ("none": no such POST was made),
\* _degraded_mode as it was when the primary POST came back, and whether the
\* key was in _cache already when _add_to_cache was called.
EmbedResult(kind, data, text) ==
    [kind |-> kind, data |-> data, text |-> text, hit |-> FALSE,
     evicted |-> None, lru |-> None,
     primary |-> "none", fallback |-> "none", was_degraded |-> FALSE,
     recached |-> FALSE,
     call |-> "embed", items |-> <<>>]

\* embed(text) from its call to its return or to the await of the primary model's
\* POST, on cache c and the counters given.
EmbedStart(text, c, hits, misses, rec) ==
    IF Strip(text) = <<>>
    THEN \* "Cannot embed empty text"
         [returns |-> TRUE, result |-> EmbedResult("failure", None, text),
          hits |-> hits, misses |-> misses, recency |-> rec]
    ELSE IF CacheKey(text) \in DOMAIN c
    THEN [returns |-> TRUE,
          result |-> [EmbedResult("success", c[CacheKey(text)], text)
                        EXCEPT !.hit = TRUE],
          hits |-> hits + 1, misses |-> misses,
          recency |-> Append(Without(rec, CacheKey(text)), CacheKey(text))]
    ELSE [returns |-> FALSE, result |-> NoEmbedResult,
          hits |-> hits, misses |-> misses + 1, recency |-> rec]

\* batch_embed's append for one item: None if embed failed, else the vector.
Collect(r) == IF r.kind = "failure" THEN None ELSE r.data

\* batch_embed's loop from the item after those collected in out, up to the end of
\* the list or to the next await of a primary POST.
RECURSIVE BatchLoop(_, _, _, _, _, _, _)
BatchLoop(texts, out, items, c, hits, misses, rec) ==
    IF Len(out) = Len(texts)
    THEN [done |-> TRUE, out |-> out, items |-> items,
          hits |-> hits, misses |-> misses, recency |-> rec]
    ELSE LET s == EmbedStart(texts[Len(out) + 1], c, hits, misses, rec)
         IN  IF s.returns
             THEN BatchLoop(texts, Append(out, Collect(s.result)),
                            Append(items, s.result), c, s.hits, s.misses, s.recency)
             ELSE [done |-> FALSE, out |-> out, items |-> items,
                   hits |-> s.hits, misses |-> s.misses, recency |-> s.recency]

\* batch_embed failing as a whole as soon as one item failed.
BatchOutcome_AnyFailure(texts, out, items) ==
    IF Cardinality({i \in DOMAIN out : out[i] # None}) < Len(out)
    THEN [EmbedResult("failure", None, texts)
            EXCEPT !.call = "batch_embed", !.items = items]
    ELSE [EmbedResult("success", out, texts)
            EXCEPT !.call = "batch_embed", !.items = items]

\* batch_embed's result after the loop; items is the history of what embed
\* returned for each text.
BatchOutcome(texts, out, items) ==
    IF Cardinality({i \in DOMAIN out : out[i] # None}) = 0
    THEN \* "All embeddings failed"
         [EmbedResult("failure", None, texts)
            EXCEPT !.call = "batch_embed", !.items = items]
    ELSE [EmbedResult("success", out, texts)
            EXCEPT !.call = "batch_embed", !.items = items]

\* Task p's batch_embed goes on from the items collected in out: to its return, or
\* to the await of the next item's primary POST.
BatchContinue(p, texts, out, items, c, hits, misses, rec) ==
    LET l == BatchLoop(texts, out, items, c, hits, misses, rec)
    IN  /\ cache_hits' = l.hits
        /\ cache_misses' = l.misses
        /\ recency' = l.recency
        /\ eprimary' = [eprimary EXCEPT ![p] = "none"]
        /\ IF l.done
           THEN /\ epc' = [epc EXCEPT ![p] = "idle"]
                /\ etext' = [etext EXCEPT ![p] = <<>>]
                /\ batch' = [batch EXCEPT ![p] = NoBatch]
                /\ eret' = BatchOutcome(texts, l.out, l.items)
           ELSE /\ epc' = [epc EXCEPT ![p] = "primary"]
                /\ etext' = [etext EXCEPT ![p] = texts[Len(l.out) + 1]]
                /\ batch' = [batch EXCEPT ![p] = [active |-> TRUE, texts |-> texts,
                                                  out |-> l.out, items |-> l.items]]
                /\ eret' = NoEmbedResult

\* embed returns r in task p, the cache and the counters being as given: to the
\* task itself, or to the batch_embed loop the task is in.
EmbedReturns(p, r, c, hits, misses, rec) ==
    IF batch[p].active
    THEN BatchContinue(p, batch[p].texts, Append(batch[p].out, Collect(r)),
                       Append(batch[p].items, r), c, hits, misses, rec)
    ELSE /\ epc' = [epc EXCEPT ![p] = "idle"]
         /\ etext' = [etext EXCEPT ![p] = <<>>]
         /\ eprimary' = [eprimary EXCEPT ![p] = "none"]
         /\ eret' = r
         /\ cache_hits' = hits
         /\ cache_misses' = misses
         /\ recency' = rec
         /\ UNCHANGED batch

\* embed(text) counting a miss and calling the primary model for blank text too.
EmbedBegin_NoBlankCheck(p, text) ==
    /\ epc[p] = "idle"
    /\ UNCHANGED <<graph_vars, rrf_vars, chunk_vars>>
    /\ cache_hits + cache_misses < MaxCalls
    /\ cache_misses' = cache_misses + 1
    /\ epc' = [epc EXCEPT ![p] = "primary"]
    /\ etext' = [etext EXCEPT ![p] = text]
    /\ eret' = NoEmbedResult
    /\ UNCHANGED <<cache, cache_order, degraded_mode, cache_hits, recency, eprimary,
                   batch>>

\* embed(text) called by task p, up to its return or to the await of the primary
\* model's POST.
EmbedBegin(p, text) ==
    /\ epc[p] = "idle"
    /\ UNCHANGED <<graph_vars, rrf_vars, chunk_vars>>
    /\ Strip(text) # <<>> => cache_hits + cache_misses < MaxCalls
    /\ LET s == EmbedStart(text, cache, cache_hits, cache_misses, recency)
       IN  IF s.returns
           THEN EmbedReturns(p, s.result, cache, s.hits, s.misses, s.recency)
           ELSE /\ cache_hits' = s.hits
                /\ cache_misses' = s.misses
                /\ recency' = s.recency
                /\ epc' = [epc EXCEPT ![p] = "primary"]
                /\ etext' = [etext EXCEPT ![p] = text]
                /\ eret' = NoEmbedResult
                /\ UNCHANGED <<eprimary, batch>>
    /\ UNCHANGED <<cache, cache_order, degraded_mode>>

\* The lists of texts batch_embed is called with.
BatchItems == {<<SP>>, <<"x">>, <<"y">>}

BatchTexts == UNION {[1..n -> BatchItems] : n \in 0..MaxBatch}

\* batch_embed(texts) called by task p, up to its return or to the await of the
\* first primary POST.
BatchBegin(p, texts) ==
    /\ epc[p] = "idle"
    /\ UNCHANGED <<graph_vars, rrf_vars, chunk_vars>>
    /\ cache_hits + cache_misses + Len(texts) <= MaxCalls
    /\ IF texts = <<>>
       THEN \* "Cannot embed empty list"
            /\ eret' = [EmbedResult("failure", None, texts)
                          EXCEPT !.call = "batch_embed"]
            /\ UNCHANGED <<cache_hits, cache_misses, recency, epc, etext, eprimary,
                           batch>>
       ELSE BatchContinue(p, texts, <<>>, <<>>, cache, cache_hits, cache_misses,
                          recency)
    /\ UNCHANGED <<cache, cache_order, degraded_mode>>

\* What the POST to a model gives: status 200 with an embedding, status 200 with an
\* empty embedding, another status, httpx.ConnectError, or another exception (the
\* client's 30 s timeout among them).
Responses == {"ok", "empty", "status", "connect", "timeout"}

\* The primary model's POST with no fallback: every failure is returned.
PrimaryResponse_NoFallback(p, response) ==
    /\ epc[p] = "primary"
    /\ UNCHANGED <<graph_vars, rrf_vars, chunk_vars>>
    /\ LET text == etext[p]
           key == CacheKey(text)
       IN  IF response = "ok"
           THEN LET embedding == Vector(PrimaryModel, text)
                    added == _add_to_cache(cache, cache_order, key, embedding)
                    rec == Without(Append(Without(recency, key), key), added.evicted)
                IN  /\ cache' = added.cache
                    /\ cache_order' = added.order
                    /\ EmbedReturns(p, [EmbedResult("success", embedding, text)
                                          EXCEPT !.evicted = added.evicted,
                                                 !.lru = IF Without(recency, key) = <<>>
                                                         THEN key
                                                         ELSE Head(Without(recency, key)),
                                                 !.primary = response,
                                                 !.was_degraded = degraded_mode,
                                                 !.recached = key \in DOMAIN cache],
                                    added.cache, cache_hits, cache_misses, rec)
                    /\ UNCHANGED degraded_mode
           ELSE /\ EmbedReturns(p, [EmbedResult("failure", None, text)
                                      EXCEPT !.primary = response,
                                             !.was_degraded = degraded_mode],
                                cache, cache_hits, cache_misses, recency)
                /\ UNCHANGED <<cache, cache_order, degraded_mode>>

\* The primary model's POST, a success of which clears _degraded_mode.
PrimaryResponse_Revert(p, response) ==
    /\ epc[p] = "primary"
    /\ UNCHANGED <<graph_vars, rrf_vars, chunk_vars>>
    /\ LET text == etext[p]
           key == CacheKey(text)
       IN  IF response = "ok"
           THEN LET embedding == Vector(PrimaryModel, text)
                    added == _add_to_cache(cache, cache_order, key, embedding)
                    rec == Without(Append(Without(recency, key), key), added.evicted)
                IN  /\ cache' = added.cache
                    /\ cache_order' = added.order
                    /\ EmbedReturns(p, [EmbedResult("success", embedding, text)
                                          EXCEPT !.evicted = added.evicted,
                                                 !.lru = IF Without(recency, key) = <<>>
                                                         THEN key
                                                         ELSE Head(Without(recency, key)),
                                                 !.primary = response,
                                                 !.was_degraded = degraded_mode,
                                                 !.recached = key \in DOMAIN cache],
                                    added.cache, cache_hits, cache_misses, rec)
                    /\ degraded_mode' = FALSE
           ELSE IF response \in {"status", "connect"} /\ ~degraded_mode
           THEN /\ degraded_mode' = TRUE
                /\ epc' = [epc EXCEPT ![p] = "fallback"]
                /\ eprimary' = [eprimary EXCEPT ![p] = response]
                /\ eret' = NoEmbedResult
                /\ UNCHANGED <<cache, cache_order, recency, etext, cache_hits,
                               cache_misses, batch>>
           ELSE /\ EmbedReturns(p, [EmbedResult("failure", None, text)
                                      EXCEPT !.primary = response,
                                             !.was_degraded = degraded_mode],
                                cache, cache_hits, cache_misses, recency)
                /\ UNCHANGED <<cache, cache_order, degraded_mode>>

\* The primary model's POST returns or raises.
PrimaryResponse(p, response) ==
    /\ epc[p] = "primary"
    /\ UNCHANGED <<graph_vars, rrf_vars, chunk_vars>>
    /\ LET text == etext[p]
           key == CacheKey(text)
       IN  IF response = "ok"
           THEN LET embedding == Vector(PrimaryModel, text)
                    added == _add_to_cache(cache, cache_order, key, embedding)
                    rec == Without(Append(Without(recency, key), key), added.evicted)
                IN  /\ cache' = added.cache
                    /\ cache_order' = added.order
                    /\ EmbedReturns(p, [EmbedResult("success", embedding, text)
                                          EXCEPT !.evicted = added.evicted,
                                                 !.lru = IF Without(recency, key) = <<>>
                                                         THEN key
                                                         ELSE Head(Without(recency, key)),
                                                 !.primary = response,
                                                 !.was_degraded = degraded_mode,
                                                 !.recached = key \in DOMAIN cache],
                                    added.cache, cache_hits, cache_misses, rec)
                    /\ UNCHANGED degraded_mode
           ELSE IF response \in {"status", "connect"} /\ ~degraded_mode
           THEN \* _fallback_embed up to the await of the fallback model's POST
                /\ degraded_mode' = TRUE
                /\ epc' = [epc EXCEPT ![p] = "fallback"]
                /\ eprimary' = [eprimary EXCEPT ![p] = response]
                /\ eret' = NoEmbedResult
                /\ UNCHANGED <<cache, cache_order, recency, etext, cache_hits,
                               cache_misses, batch>>
           ELSE /\ EmbedReturns(p, [EmbedResult("failure", None, text)
                                      EXCEPT !.primary = response,
                                             !.was_degraded = degraded_mode],
                                cache, cache_hits, cache_misses, recency)
                /\ UNCHANGED <<cache, cache_order, degraded_mode>>

\* The fallback model's POST returns or raises.
FallbackResponse(p, response) ==
    /\ epc[p] = "fallback"
    /\ UNCHANGED <<graph_vars, rrf_vars, chunk_vars>>
    /\ EmbedReturns(p, [EmbedResult(IF response = "ok" THEN "success" ELSE "failure",
                                    IF response = "ok"
                                    THEN Vector(FallbackModel, etext[p])
                                    ELSE None,
                                    etext[p])
                          EXCEPT !.primary = eprimary[p], !.fallback = response],
                    cache, cache_hits, cache_misses, recency)
    /\ UNCHANGED <<cache, cache_order, degraded_mode>>

(***************************************************************************)
(* Spec: two tasks, each running store and delete calls one after another, *)
(* interleaved at their awaits.                                            *)
(***************************************************************************)
Init == GraphInit /\ RrfIdle /\ EmbedInit /\ ConfigInit

Next ==
    \/ \E ok \in BOOLEAN : Initialize(ok)
    \/ \E p \in Procs, c \in Contents : StoreBegin(p, c)
    \/ \E p \in Procs, ok \in BOOLEAN : StoreEmbed(p, ok)
    \/ \E p \in Procs, ok \in BOOLEAN : StoreUpsert(p, ok)
    \/ \E p \in Procs, id \in DeleteArgs : DeleteBegin(p, id)
    \/ \E p \in Procs, ok \in BOOLEAN : DeleteQdrant(p, ok)

Spec == Init /\ [][Next]_vars

(***************************************************************************)
(* SpecRecall: task Writer runs store and delete calls, task Reader runs   *)
(* recall calls, interleaved at their awaits.                              *)
(***************************************************************************)
Writer == "t1"

Reader == "t2"

NextRecall ==
    \/ \E ok \in BOOLEAN : Initialize(ok)
    \/ \E c \in Contents : StoreBegin(Writer, c)
    \/ \E ok \in BOOLEAN : StoreEmbed(Writer, ok)
    \/ \E ok \in BOOLEAN : StoreUpsert(Writer, ok)
    \/ \E id \in DeleteArgs : DeleteBegin(Writer, id)
    \/ \E ok \in BOOLEAN : DeleteQdrant(Writer, ok)
    \/ \E q \in Queries, ok \in BOOLEAN : RecallBegin(Reader, q, ok)
    \/ \E ok \in BOOLEAN : RecallEmbed(Reader, ok)
    \/ \E ok \in BOOLEAN :
          \E hits \in SearchHits(qdrant, rows, ok) : RecallSearch(Reader, ok, hits)

SpecRecall == Init /\ [][NextRecall]_vars

(***************************************************************************)
(* SpecInit: two request handlers, each awaiting initialize() when it      *)
(* finds _initialized false and then running store and delete calls.       *)
(***************************************************************************)
NextInit ==
    \/ \E p \in Procs, ok \in BOOLEAN : InitBegin(p, ok)
    \/ \E p \in Procs, ok \in BOOLEAN : InitQdrant(p, ok)
    \/ \E p \in Procs, c \in Contents : StoreBegin(p, c)
    \/ \E p \in Procs, ok \in BOOLEAN : StoreEmbed(p, ok)
    \/ \E p \in Procs, ok \in BOOLEAN : StoreUpsert(p, ok)
    \/ \E p \in Procs, id \in DeleteArgs : DeleteBegin(p, id)
    \/ \E p \in Procs, ok \in BOOLEAN : DeleteQdrant(p, ok)

SpecInit == Init /\ [][NextInit]_vars

(***************************************************************************)
(* SpecRRF: the fusion applied to every pair of bounded ranked lists.      *)
(***************************************************************************)
InitRRF == GraphInit /\ RrfInit /\ EmbedInit /\ ConfigInit

NextRRF == Fuse

SpecRRF == InitRRF /\ [][NextRRF]_vars

(***************************************************************************)
(* SpecEmbed: two tasks calling embed one call after another, interleaved  *)
(* at the awaits of the two POSTs.                                         *)
(***************************************************************************)
NextEmbed ==
    \/ \E p \in EProcs, text \in Texts : EmbedBegin(p, text)
    \/ \E p \in EProcs, response \in Responses : PrimaryResponse(p, response)
    \/ \E p \in EProcs, response \in Responses : FallbackResponse(p, response)

SpecEmbed == Init /\ [][NextEmbed]_vars

(***************************************************************************)
(* SpecBatch: task e1 runs batch_embed calls and task e2 embed calls on    *)
(* one EmbeddingEngine.                                                    *)
(***************************************************************************)
\* The texts task e2 embeds while task e1 is in batch_embed.
PeerTexts == {<<"z">>}

NextBatch ==
    \/ \E texts \in BatchTexts : BatchBegin("e1", texts)
    \/ \E text \in PeerTexts : EmbedBegin("e2", text)
    \/ \E p \in EProcs, response \in Responses : PrimaryResponse(p, response)
    \/ \E p \in EProcs, response \in Responses : FallbackResponse(p, response)

SpecBatch == Init /\ [][NextBatch]_vars

(***************************************************************************)
(* SpecChunk: one _chunk_content call on each content of up to MaxContent  *)
(* characters in engines of every configuration with                       *)
(* chunk_overlap < chunk_size <= MaxChunkSize.                             *)
(***************************************************************************)
Alphabet == {"a", "b", SP, NL}

ChunkContents == UNION {[1..n -> Alphabet] : n \in 0..MaxContent}

Configs == {cfg \in (1..MaxChunkSize) \X (0..MaxChunkSize) : cfg[2] < cfg[1]}

InitChunk ==
    /\ GraphInit
    /\ RrfIdle
    /\ EmbedInit
    /\ \E cfg \in Configs : chunk_size = cfg[1] /\ chunk_overlap = cfg[2]
    /\ chunk_input \in ChunkContents
    /\ chunk_output = <<>>
    /\ WindowIdle

\* chunks = self._chunk_content(content), content being chunk_input; the result
\* is never the empty list, so an empty chunk_output means no call yet.
Chunk ==
    /\ chunk_output = <<>>
    /\ UNCHANGED <<graph_vars, rrf_vars, embed_vars>>
    /\ chunk_output' = _chunk_content(chunk_input)
    /\ UNCHANGED <<chunk_size, chunk_overlap, chunk_input, window_vars>>

NextChunk == Chunk

SpecChunk == InitChunk /\ [][NextChunk]_vars

(***************************************************************************)
(* SpecWindow: the sliding-window loop of _chunk_content followed one      *)
(* iteration at a time, on each text of up to MaxContent characters that   *)
(* takes that branch (one paragraph, longer than chunk_size), in engines   *)
(* of every configuration the constructor accepts: __init__ stores         *)
(* chunk_size and chunk_overlap as given, so chunk_overlap >= chunk_size   *)
(* is among them.  The loop's own condition is i < len(text); the model    *)
(* follows at most MaxIter iterations of it, more than any loop that       *)
(* advances by at least one character makes on these texts.                *)
(***************************************************************************)
MaxIter == MaxContent + 1

Max(a, b) == IF a >= b THEN a ELSE b

\* A Python slice index k on a sequence of length n: negative counts from the end.
PyIndex(k, n) == IF k < 0 THEN Max(n + k, 0) ELSE Min(k, n)

\* s[i:j] for any integers i and j.
PySlice(s, i, j) == SubSeq(s, PyIndex(i, Len(s)) + 1, PyIndex(j, Len(s)))

WindowTexts == UNION {[1..n -> {"a", "b"}] : n \in 1..MaxContent}

WindowConfigs == (1..MaxChunkSize) \X (0..MaxChunkSize)

\* The call has passed `len(content) <= self.chunk_size`, split the content into
\* its one paragraph and set text, i = 0 and chunks = [].
InitWindow ==
    /\ GraphInit
    /\ RrfIdle
    /\ EmbedInit
    /\ \E cfg \in WindowConfigs : chunk_size = cfg[1] /\ chunk_overlap = cfg[2]
    /\ chunk_input \in WindowTexts
    /\ Len(chunk_input) > chunk_size
    /\ chunk_output = <<>>
    /\ win_pc = "loop"
    /\ win_i = 0
    /\ win_chunks = <<>>

\* One iteration: chunk_end = min(i + size, len(text)); chunks.append(text[i:chunk_end]);
\* i += size - overlap
WindowStep ==
    /\ win_pc = "loop"
    /\ win_i < Len(chunk_input)
    /\ Len(win_chunks) < MaxIter
    /\ UNCHANGED <<graph_vars, rrf_vars, embed_vars>>
    /\ win_chunks' = Append(win_chunks,
                            PySlice(chunk_input, win_i,
                                    Min(win_i + chunk_size, Len(chunk_input))))
    /\ win_i' = win_i + (chunk_size - chunk_overlap)
    /\ UNCHANGED <<chunk_size, chunk_overlap, chunk_input, chunk_output, win_pc>>

\* The loop condition fails: return chunks
WindowReturn ==
    /\ win_pc = "loop"
    /\ ~(win_i < Len(chunk_input))
    /\ UNCHANGED <<graph_vars, rrf_vars, embed_vars>>
    /\ win_pc' = "done"
    /\ chunk_output' = win_chunks
    /\ UNCHANGED <<chunk_size, chunk_overlap, chunk_input, win_i, win_chunks>>

NextWindow ==
    \/ WindowStep
    \/ WindowReturn

SpecWindow == InitWindow /\ [][NextWindow]_vars

(***************************************************************************)
(* Properties of store and delete (Spec).                                  *)
(***************************************************************************)
\* The rows, index entries and points holding content c as an entry: the row
\* whose content_hash is the hash of c, and the index entry and point of its id.
RowsOf(c) == {r \in rows : r.content_hash = Sha256(c)}

FtsOf(c) == {f \in fts : \E r \in RowsOf(c) : f.id = r.id}

PointsOf(c) == {q \in qdrant : \E r \in RowsOf(c) : q.id = r.id}

\* C1: a store(C) that directly follows a successful store(C) returns success with
\* the id the first call returned, calls neither embed nor upsert, and leaves
\* exactly one row and one FTS entry (and at most one point) for C; for content of
\* any length, content longer than chunk_size included.
C1_StoreIdempotent ==
    (ret.op = "store" /\ ret.prev # None) =>
        /\ ret.kind = "success"
        /\ ret.id = ret.prev
        /\ ~ret.vec_work
        /\ Cardinality(RowsOf(ret.content)) = 1
        /\ Cardinality(FtsOf(ret.content)) = 1
        /\ Cardinality(PointsOf(ret.content)) <= 1

\* C2: no two rows ever have the same content_hash, and when a store(C) returns
\* success after an overlapping store(C) returned success (no delete having removed
\* a row of the call meanwhile), both returned the same id and there is exactly one
\* row for C.
C2_HashUnique ==
    /\ \A r1, r2 \in rows : r1.content_hash = r2.content_hash => r1.id = r2.id
    /\ (ret.op = "store" /\ ret.kind = "success" /\ ret.intact /\ ret.peers # {}) =>
          /\ \A id \in ret.peers : id = ret.id
          /\ Cardinality(RowsOf(ret.content)) = 1

\* C3: when delete(E.id) returns success, called directly after the store that
\* returned E, no row, no FTS entry and no point stored under E's memory id
\* remains, and get_by_id(E.id) returns None.
C3_DeleteRemovesAll ==
    (ret.op = "delete" /\ ret.kind = "success" /\ ret.after_store) =>
        /\ \A r \in rows : ParentOf(r.id) # ParentOf(ret.arg)
        /\ \A f \in fts : ParentOf(f.id) # ParentOf(ret.arg)
        /\ \A q \in qdrant : ParentOf(q.id) # ParentOf(ret.arg)
        /\ get_by_id(rows, ret.arg) = NoRow

\* C4: a store call in which an embedding failed or an upsert raised, and in which
\* no INSERT raised, returns success; and unless a concurrent delete removed one
\* of its rows, every chunk of the content is then in the table and in the FTS
\* index.
C4_EmbedFailureNonFatal ==
    (ret.op = "store" /\ ret.vec_failed /\ ~ret.db_error) =>
        /\ ret.kind = "success"
        /\ ret.intact => ret.persisted

\* A store of two chunks returned after an embedding or an upsert failed.
C4_Witness ==
    /\ ret.op = "store"
    /\ ret.vec_failed
    /\ ~ret.db_error
    /\ ret.intact
    /\ Len(ret.chunks) = 2
    /\ ret.inserted = 2

(***************************************************************************)
(* Properties of recall (SpecRecall).                                      *)
(***************************************************************************)
\* The ids of a list of results, in the list's order.
IdSeq(results) == [i \in DOMAIN results |-> results[i].entry.id]

\* C5: a recall whose semantic list is empty (Qdrant unavailable, or the query
\* embedding or the search failed) returns the first k FTS results, in the order
\* and with the scores _fts_search gave them, each tagged "fts", the engine's tag
\* for lexical; and it returns a matching row whenever the FTS query ran and rows
\* matched.
C5_LexicalOnlyRecall ==
    (ret.op = "recall" /\ ret.was_initialized /\ ret.semantic_results = <<>>) =>
        /\ Len(ret.list) = Min(ret.k, Len(ret.fts_results))
        /\ \A i \in DOMAIN ret.list :
              /\ ret.list[i].entry = ret.fts_results[i].entry
              /\ ret.list[i].score = ret.fts_results[i].score
              /\ ret.list[i].source = "fts"
        /\ (ret.fts_ok /\ ret.matching # {}) =>
              /\ ret.list # <<>>
              /\ \A i \in DOMAIN ret.list : ret.list[i].entry \in ret.matching

\* A recall with Qdrant unavailable returned one of two matching rows (k = 1).
C5_Witness ==
    /\ ret.op = "recall"
    /\ ret.was_initialized
    /\ ~ret.sem_tried
    /\ ~qdrant_available
    /\ Cardinality(ret.matching) = 2
    /\ ret.k = 1
    /\ Len(ret.list) = 1

\* C6: recall always returns a list: the empty list when the engine is not
\* initialized or when both lookups failed, the first k semantic results when only
\* the FTS search failed, the first k FTS results when only the semantic lookup
\* (embedding or search) failed.
C6_RecallNeverRaises ==
    ret.op = "recall" =>
        /\ ret.kind = "list"
        /\ ~ret.was_initialized => ret.list = <<>>
        /\ (~ret.fts_ok /\ ~ret.sem_ok) => ret.list = <<>>
        /\ (~ret.fts_ok /\ ret.sem_ok) =>
              IdSeq(ret.list) = IdSeq(TopK(ret.semantic_results, ret.k))
        /\ (ret.fts_ok /\ ret.sem_tried /\ ~ret.sem_ok) =>
              IdSeq(ret.list) = IdSeq(TopK(ret.fts_results, ret.k))

\* The FTS search failed and recall returned what the semantic search found.
C6_Witness ==
    /\ ret.op = "recall"
    /\ ~ret.fts_ok
    /\ ret.sem_ok
    /\ ret.list # <<>>

\* C8: in every list recall returns, scores are non-negative and non-increasing
\* from the first result to the last, and every score _fts_search gave is in [0,1].
C8_ScoresNonIncreasing ==
    ret.op = "recall" =>
        /\ \A i \in DOMAIN ret.list : FracLeq(Frac(0, 1), ret.list[i].score)
        /\ \A i, j \in DOMAIN ret.list :
              i < j => FracLeq(ret.list[j].score, ret.list[i].score)
        /\ \A i \in DOMAIN ret.fts_results :
              /\ FracLeq(Frac(0, 1), ret.fts_results[i].score)
              /\ FracLeq(ret.fts_results[i].score, Frac(1, 1))

(***************************************************************************)
(* Properties of the fusion (SpecRRF).                                     *)
(***************************************************************************)
\* Whether the entry of this id is in the ranked list, and its rank (from 0).
InList(results, id) == id \in IdsOf(results)

RankOf(results, id) == (CHOOSE i \in DOMAIN results : results[i].entry.id = id) - 1

\* The reference: the sum, over the lists containing id, of 1 / (rank + k).
ReferenceScore(id) ==
    FracAdd(IF InList(ranked1, id) THEN Frac(1, RankOf(ranked1, id) + rrf_k)
            ELSE Frac(0, 1),
            IF InList(ranked2, id) THEN Frac(1, RankOf(ranked2, id) + rrf_k)
            ELSE Frac(0, 1))

ReferenceSource(id) ==
    IF InList(ranked1, id) /\ InList(ranked2, id) THEN "hybrid"
    ELSE IF InList(ranked1, id) THEN "fts"
    ELSE "semantic"

\* C7: the fused list has exactly one result per id of the union of the two lists,
\* with the reference score and the reference tag ("fts" being the tag for
\* lexical), in order of non-increasing score; and [A,B,C] fused with [B,C,A]
\* comes out in the order B, A, C.
C7_RRFMatchesReference ==
    rrf_done =>
        /\ Len(fused) = Cardinality(IdsOf(ranked1) \cup IdsOf(ranked2))
        /\ IdsOf(fused) = IdsOf(ranked1) \cup IdsOf(ranked2)
        /\ \A i \in DOMAIN fused :
              /\ FracEq(fused[i].score, ReferenceScore(fused[i].entry.id))
              /\ fused[i].source = ReferenceSource(fused[i].entry.id)
        /\ \A i, j \in DOMAIN fused :
              i < j => FracLeq(fused[j].score, fused[i].score)
        /\ (IdSeq(ranked1) = <<"A", "B", "C">> /\ IdSeq(ranked2) = <<"B", "C", "A">>) =>
              IdSeq(fused) = <<"B", "A", "C">>

\* [A,B,C] and [B,C,A] have been fused.
C7_Witness ==
    /\ rrf_done
    /\ IdSeq(ranked1) = <<"A", "B", "C">>
    /\ IdSeq(ranked2) = <<"B", "C", "A">>
    /\ Len(fused) = 3

\* C19: RRF tie-break.  Of two fused results with equal cumulative score the one
\* whose entry has the more recent timestamp comes first, whatever the order in
\* which the two input lists presented the entries.
C19_TieBreakByTimestamp ==
    rrf_done =>
        \A i, j \in DOMAIN fused :
            (i < j /\ FracEq(fused[i].score, fused[j].score)) =>
                fused[i].entry.timestamp >= fused[j].entry.timestamp

(***************************************************************************)
(* Properties of the embedding cache (SpecEmbed).                          *)
(***************************************************************************)
\* C9: the cache never holds more than cache_size embeddings.
C9_CacheBound == Cardinality(DOMAIN cache) <= cache_size

\* An embed call into a full cache returned, having evicted a key.
C9_Witness ==
    /\ eret.kind = "success"
    /\ eret.evicted # None
    /\ Cardinality(DOMAIN cache) = cache_size

\* C10: every eviction removes the key whose most recent use, insertion or cache
\* hit, is the oldest among the cached keys.
C10_StrictLRU ==
    (eret.kind = "success" /\ eret.evicted # None) => eret.evicted = eret.lru

\* The last key of a non-empty _cache_order.
Last(seq) == seq[Len(seq)]

\* C11: a step that caches a new key evicts nothing when the cache was below
\* cache_size, and evicts exactly one key when it was full: the earliest-inserted
\* one if no hit has reordered the uses since (X, Y, Z into a cache of two evicts
\* X and keeps Y and Z); a step that caches a key already cached moves it to the
\* end of _cache_order, evicting nothing and leaving the size as it was.
C11_MinimalEviction ==
    [][LET new == DOMAIN cache' \ DOMAIN cache
           gone == DOMAIN cache \ DOMAIN cache'
       IN  /\ Cardinality(new) <= 1
           /\ (new # {} /\ Cardinality(DOMAIN cache) < cache_size) => gone = {}
           /\ (new # {} /\ Cardinality(DOMAIN cache) = cache_size) =>
                 /\ Cardinality(gone) = 1
                 /\ recency = cache_order => gone = {Head(cache_order)}
           /\ new = {} =>
                 /\ gone = {}
                 /\ cache_order' # cache_order =>
                       /\ Last(cache_order') \in DOMAIN cache
                       /\ cache_order' = Append(Without(cache_order, Last(cache_order')),
                                                Last(cache_order'))
      ]_vars

\* With no cache hit so far, a third key was cached into the full cache of two:
\* the first key is gone and the two later ones are cached.
C11_Witness ==
    /\ eret.kind = "success"
    /\ cache_hits = 0
    /\ eret.evicted # None
    /\ eret.evicted \notin DOMAIN cache
    /\ Len(cache_order) = cache_size
    /\ DOMAIN cache = {cache_order[i] : i \in DOMAIN cache_order}
    /\ Last(cache_order) = CacheKey(eret.text)

\* C12: embed rejects empty or whitespace-only text with a failure result in the
\* step of the call itself, before any POST: no task ever awaits a POST with a
\* blank text, and the step returning for a blank text returns a failure, made no
\* primary and no fallback call, and leaves the cache, its order, the hit and
\* miss counters and the degraded flag unchanged.
C12_BlankTextRejected ==
    [][/\ \A p \in EProcs : epc'[p] # "idle" => Strip(etext'[p]) # <<>>
       /\ (eret'.kind # "none" /\ eret'.call = "embed" /\ Strip(eret'.text) = <<>>) =>
             /\ eret'.kind = "failure"
             /\ eret'.data = None
             /\ eret'.primary = "none"
             /\ eret'.fallback = "none"
             /\ epc' = epc
             /\ UNCHANGED <<cache, cache_order, cache_hits, cache_misses,
                            degraded_mode>>
      ]_vars

\* A whitespace-only text was just rejected by an engine with a cached vector, a
\* counted hit, a set degraded flag and another task awaiting a POST.
C12_Witness ==
    /\ eret.kind = "failure"
    /\ eret.text = <<SP>>
    /\ eret.primary = "none"
    /\ cache # <<>>
    /\ cache_hits > 0
    /\ degraded_mode
    /\ \E p \in EProcs : epc[p] = "primary"

\* C13: single-fallback protocol.  A task goes to the fallback POST only from a
\* primary POST that failed with a connection error or a non-success status while
\* the provider was not degraded, and from the fallback POST it only returns; an
\* embed call whose primary POST failed that way with the provider not degraded
\* made the fallback POST and returns the fallback model's vector if that POST
\* succeeded and a failure if it did not; no call makes a fallback POST otherwise.
C13_SingleFallback ==
    [][/\ \A p \in EProcs :
             /\ epc[p] = "fallback" => epc'[p] \in {"fallback", "idle"}
             /\ (epc[p] # "fallback" /\ epc'[p] = "fallback") =>
                   /\ epc[p] = "primary"
                   /\ eprimary'[p] \in {"status", "connect"}
                   /\ ~degraded_mode
             /\ (epc[p] = "idle" /\ epc'[p] # "idle") => epc'[p] = "primary"
       /\ (eret'.kind # "none" /\ eret'.call = "embed") =>
             /\ (eret'.primary \in {"status", "connect"} /\ ~eret'.was_degraded) =>
                   /\ eret'.fallback # "none"
                   /\ eret'.fallback = "ok" =>
                         /\ eret'.kind = "success"
                         /\ eret'.data = Vector(FallbackModel, eret'.text)
                   /\ eret'.fallback # "ok" =>
                         /\ eret'.kind = "failure"
                         /\ eret'.data = None
             /\ eret'.fallback # "none" =>
                   /\ eret'.primary \in {"status", "connect"}
                   /\ ~eret'.was_degraded
      ]_vars

\* An embed call whose primary POST raised a connection error returned the
\* fallback model's vector.
C13_Witness ==
    /\ eret.kind = "success"
    /\ eret.primary = "connect"
    /\ eret.fallback = "ok"
    /\ eret.data = Vector(FallbackModel, eret.text)

\* C14: the degraded flag is one-directional: it starts false and no step of
\* embed, batch_embed or check_availability (an embed call) takes it from true
\* to false.
C14_DegradedOneWay ==
    /\ ~degraded_mode
    /\ [][degraded_mode => degraded_mode']_vars

\* The provider is degraded and a batch_embed call has just returned a vector that
\* the primary model produced while the provider was degraded.
C14_Witness ==
    /\ degraded_mode
    /\ eret.kind = "success"
    /\ eret.call = "batch_embed"
    /\ \E i \in DOMAIN eret.items :
          /\ eret.items[i].primary = "ok"
          /\ eret.items[i].was_degraded

\* C15: batch_embed partial-failure semantics.  batch_embed fails as a whole
\* exactly when its list is empty or embed failed for every item; otherwise it
\* returns a list of the input's length holding at position i the vector embed
\* returned for texts[i] (a vector of texts[i]) if that call succeeded and None
\* if it failed.
C15_BatchPartialFailure ==
    (eret.kind # "none" /\ eret.call = "batch_embed") =>
        LET texts == eret.text
            items == eret.items
        IN  /\ texts # <<>> =>
                  /\ Len(items) = Len(texts)
                  /\ \A i \in DOMAIN texts : items[i].text = texts[i]
            /\ eret.kind = "failure" <=>
                  \/ texts = <<>>
                  \/ \A i \in DOMAIN items : items[i].kind = "failure"
            /\ eret.kind = "success" =>
                  /\ Len(eret.data) = Len(texts)
                  /\ \A i \in DOMAIN texts :
                        IF items[i].kind = "success"
                        THEN /\ eret.data[i] = items[i].data
                             /\ eret.data[i] \in {Vector(PrimaryModel, texts[i]),
                                                  Vector(FallbackModel, texts[i])}
                        ELSE eret.data[i] = None

\* A batch of two texts returned None for the first and a vector for the second.
C15_Witness ==
    /\ eret.kind = "success"
    /\ eret.call = "batch_embed"
    /\ Len(eret.data) = 2
    /\ eret.data[1] = None
    /\ eret.data[2] = Vector(PrimaryModel, eret.text[2])
    /\ eret.items[1].primary = "timeout"

\* C20: the provider is marked degraded only on a successful fallback: the flag
\* becomes true exactly in a step in which a fallback POST returns a vector, so
\* that it is still false after a call whose primary and fallback POST both
\* failed.
C20_DegradedOnlyOnFallbackSuccess ==
    [][degraded_mode' =
          (degraded_mode \/ (eret'.kind = "success" /\ eret'.fallback = "ok"))]_vars

NonSpace(s) == SelectSeq(s, LAMBDA ch : ~IsSpace(ch))

\* The chunks put together again: the first chunk, then every later chunk without
\* its leading chunk_overlap characters (chunk[n:]).
RECURSIVE Rejoin(_, _)
Rejoin(chunks, i) ==
    IF i > Len(chunks) THEN <<>>
    ELSE (IF i = 1 THEN chunks[i] ELSE SubSeq(chunks[i], chunk_overlap + 1, Len(chunks[i])))
             \o Rejoin(chunks, i + 1)

\* The content has a blank line: NL NL, where split("\n\n") cuts.
HasBlankLine(s) == \E i \in 1..(Len(s) - 1) : s[i] = NL /\ s[i + 1] = NL

\* C17: chunk round-trip.  For content longer than chunk_size, the chunks put
\* together again without the leading chunk_overlap characters of every chunk but
\* the first give the content back up to whitespace (the same non-whitespace
\* characters in the same order), and exactly when the content has no blank line.
C17_ChunkRoundTrip ==
    (chunk_output # <<>> /\ Len(chunk_input) > chunk_size) =>
        /\ NonSpace(Rejoin(chunk_output, 1)) = NonSpace(chunk_input)
        /\ ~HasBlankLine(chunk_input) => Rejoin(chunk_output, 1) = chunk_input

\* C18: chunk size bound.  Every chunk _chunk_content returns has at most
\* chunk_size + chunk_overlap characters, and content of at most chunk_size
\* characters gives the one chunk equal to the content.
C18_ChunkSizeBound ==
    chunk_output # <<>> =>
        /\ \A i \in DOMAIN chunk_output :
              Len(chunk_output[i]) <= chunk_size + chunk_overlap
        /\ Len(chunk_input) <= chunk_size => chunk_output = <<chunk_input>>

(***************************************************************************)
(* Properties of the degraded provider and of the cache under concurrent   *)
(* calls (SpecEmbed).                                                      *)
(***************************************************************************)
\* C21: once the provider is degraded, an embed call with uncached non-empty text
\* skips the primary model: a task that leaves idle while the flag is set goes
\* to the fallback POST, not to the primary POST; and a call whose fallback POST
\* succeeded returns the fallback model's vector.
C21_DegradedSkipsPrimary ==
    [][/\ \A p \in EProcs :
             (degraded_mode /\ epc[p] = "idle" /\ epc'[p] # "idle") =>
                 epc'[p] = "fallback"
       /\ (eret'.kind # "none" /\ eret'.call = "embed" /\ eret'.fallback = "ok") =>
             /\ eret'.kind = "success"
             /\ eret'.data = Vector(FallbackModel, eret'.text)
      ]_vars

\* C22: fallback vectors and the cache.  Every cache entry under a
\* (primary model, text) key holds the primary model's vector of that text, and
\* when an embed call returns a fallback vector that vector is in the cache
\* under the fallback model's own key.
C22_FallbackVectorCaching ==
    /\ \A key \in DOMAIN cache :
          key[1] = PrimaryModel => cache[key] = Vector(PrimaryModel, key[2])
    /\ (eret.kind = "success" /\ eret.call = "embed" /\ eret.fallback = "ok") =>
          /\ <<FallbackModel, eret.text>> \in DOMAIN cache
          /\ cache[<<FallbackModel, eret.text>>] = eret.data

\* C24: timeouts follow the same fallback rules: an embed call whose primary POST
\* timed out while the provider was not degraded made the fallback POST, and
\* returns the fallback vector if that POST succeeded and a failure if not.
C24_TimeoutFallsBack ==
    (eret.kind # "none" /\ eret.call = "embed" /\ eret.primary = "timeout"
        /\ ~eret.was_degraded) =>
        /\ eret.fallback # "none"
        /\ eret.fallback = "ok" => eret.data = Vector(FallbackModel, eret.text)
        /\ eret.fallback # "ok" => eret.kind = "failure"

\* C25: the cache is never corrupted by concurrent embed calls: _cache and
\* _cache_order hold the same keys, _cache_order has no key twice, and there
\* are at most cache_size keys.
C25_CacheConsistent ==
    /\ DOMAIN cache = {cache_order[i] : i \in DOMAIN cache_order}
    /\ \A i, j \in DOMAIN cache_order : cache_order[i] = cache_order[j] => i = j
    /\ Len(cache_order) <= cache_size
    /\ Cardinality(DOMAIN cache) <= cache_size

\* Two tasks missed on the same text; the first to return cached its vector in a
\* cache that is now full, and the second has just cached its vector over it.
C25_Witness ==
    /\ eret.kind = "success"
    /\ eret.primary = "ok"
    /\ eret.recached
    /\ eret.evicted = None
    /\ Len(cache_order) = cache_size
    /\ Last(cache_order) = CacheKey(eret.text)
    /\ cache_hits = 0

(***************************************************************************)
(* Properties of initialize under concurrent request handlers (SpecInit).  *)
(***************************************************************************)
\* C28: initialization happens once.  The body of initialize starts only when
\* the engine is not initialized and no other task is inside the body, and once
\* initialize has returned the availability flag it left does not change.
C28_InitializeOnce ==
    [][/\ (ret'.op = "initialize" /\ ret'.kind \in {"await", "raised"}) =>
             /\ ~initialized
             /\ \A q \in Procs : pc[q] # "init_qdrant"
       /\ initialized => qdrant_available' = qdrant_available
      ]_vars

(***************************************************************************)
(* Properties of failures inside store, recall and delete.                 *)
(***************************************************************************)
\* C23: a vector-index failure at call time flips the availability flag: after
\* the step in which a store's upsert raised (the task leaves the upsert and no
\* point was written) or a recall's search raised, the flag is false.
C23_CallTimeFailureDegrades ==
    [][\A p \in Procs :
          /\ (pc[p] = "store_upsert" /\ pc'[p] # "store_upsert" /\ qdrant' = qdrant) =>
                ~qdrant_available'
          /\ (pc[p] = "recall_search" /\ pc'[p] = "idle" /\ ~ret'.sem_ok) =>
                ~qdrant_available'
      ]_vars

\* The rows, index entries and points written under a memory id.
WrittenUnder(memory_id) ==
    {r.id : r \in {r \in rows : ParentOf(r.id) = memory_id}}
        \cup {f.id : f \in {f \in fts : ParentOf(f.id) = memory_id}}
        \cup {q.id : q \in {q \in qdrant : ParentOf(q.id) = memory_id}}

\* C26: a failed store is atomic: when store has returned a failure, no row, no
\* index entry and no point written under the memory id of that call is in the
\* table, the FTS index or the vector index.
C26_FailedStoreAtomic ==
    (ret.op = "store" /\ ret.kind = "failure") => WrittenUnder(ret.memory_id) = {}

\* C27: store of new content succeeds on a healthy database: a store call on an
\* initialized engine that did not find its content stored returns success; no
\* INSERT of it raises an integrity error.
C27_NewContentStoreSucceeds ==
    (ret.op = "store" /\ ret.memory_id # 0) =>
        /\ ret.kind = "success"
        /\ ~ret.db_error

\* C30: no orphan vectors: when no store and no delete is in flight, every point
\* of the vector index has the id of a row of the table.
C30_NoOrphanVectors ==
    (\A p \in Procs : pc[p] = "idle") =>
        \A q \in qdrant : \E r \in rows : r.id = q.id

(***************************************************************************)
(* Termination of the sliding window.                                      *)
(***************************************************************************)
\* C29: chunking terminates for every chunk_size and chunk_overlap, including
\* chunk_overlap >= chunk_size: every iteration of the sliding window strictly
\* increases the position i, and the loop makes no more iterations than the
\* text has characters.
C29_WindowAdvances ==
    [][(win_pc = "loop" /\ win_chunks' # win_chunks) =>
          /\ win_i' > win_i
          /\ Len(win_chunks') <= Len(chunk_input)]_vars

=============================================================================
